---------------------------- MODULE Spec2Model ----------------------------
(***************************************************************************)
(* Link resolution and normalization engine of the Topic Explorer plugin   *)
(* (src/main.ts).  A JavaScript string is a sequence of one-character      *)
(* strings, so that slicing, case conversion, splitting and suffix rules   *)
(* are computed character by character as the code computes them.          *)
(***************************************************************************)
EXTENDS Integers, Sequences, FiniteSets, TLC

VARIABLES
    settings,          \* TopicExplorer.settings (capitalizeLinks, singularizeLinks)
    vault,             \* paths of the documents held by app.vault
    content,           \* text of the active document
    firstDead,         \* deadLinksSet of detectDeadWikilinks before the second pass
    dead_links,        \* dead_links handed to DeadLinksModal by detectDeadWikilinks
    normalized_links,  \* normalized_links handed to DeadLinksModal (insertion order)
    view_dead,         \* dead_links built by the sidebar pass of updateView
    view_normalized,   \* normalized_links built by the sidebar pass of updateView
    op,                \* the operation that ran last
    link,              \* argument of a direct normalizeLink / fileExistsInVault call
    normalized,        \* normalizeLink(link)
    renormalized,      \* normalizeLink(normalized)
    file_exists,       \* fileExistsInVault(link)
    scanned,           \* the wikilinks array filled by the WIKILINK_REGEX.exec loop
    rescanned,         \* the array of a second scan, of the array written back
    useOllamaForGeneration,  \* settings.useOllamaForGeneration
    customNewNoteFolder,     \* settings.customNewNoteFolder
    isGenerating,      \* ResearchTopicsView.isGenerating
    creation,          \* the call of createFile (sidebar or modal) in progress
    batch,             \* the call of generateAllFiles in progress
    reading,           \* the texts awaited by the calls of updateView suspended on vault.read
    containers,        \* the chat containers that contentEl holds
    ollamaMaxTokens,   \* settings.ollamaMaxTokens
    ollamaTopK,        \* settings.ollamaTopK
    savedData          \* the two values in the data file of the plugin

vars == <<settings, vault, content, firstDead, dead_links, normalized_links,
          view_dead, view_normalized, op, link, normalized,
          renormalized, file_exists, scanned, rescanned,
          useOllamaForGeneration, customNewNoteFolder, isGenerating,
          creation, batch, reading, containers,
          ollamaMaxTokens, ollamaTopK, savedData>>

\* the state of the operations modelled further down
scanVars == <<scanned, rescanned>>

\* the settings of the file generation
genSettings == <<useOllamaForGeneration, customNewNoteFolder, ollamaMaxTokens,
                 ollamaTopK, savedData>>

genVars == <<genSettings, isGenerating, creation, batch, reading, containers>>

others == <<scanVars, genVars>>

-----------------------------------------------------------------------------
(* Bounds of the model.                                                    *)

MaxRefs == 2

MaxVault == 2

MaxAliasLen == 2

-----------------------------------------------------------------------------
(* JavaScript string primitives.                                           *)

\* F applied to the value of v, which is computed once
With(v, F(_)) == CHOOSE r \in {F(x) : x \in {v}} : TRUE

LowerLetters == <<"a", "b", "c", "d", "e", "f", "g", "h", "i", "j", "k", "l", "m", "n", "o", "p", "q", "r", "s", "t", "u", "v", "w", "x", "y", "z">>

UpperLetters == <<"A", "B", "C", "D", "E", "F", "G", "H", "I", "J", "K", "L", "M", "N", "O", "P", "Q", "R", "S", "T", "U", "V", "W", "X", "Y", "Z">>

LetterIndex == DOMAIN LowerLetters

Digits == <<"0", "1", "2", "3", "4", "5", "6", "7", "8", "9">>

LowerSet == {LowerLetters[i] : i \in LetterIndex}

UpperSet == {UpperLetters[i] : i \in LetterIndex}

UpperOf == [c \in LowerSet |-> UpperLetters[CHOOSE i \in LetterIndex : LowerLetters[i] = c]]

LowerOf == [c \in UpperSet |-> LowerLetters[CHOOSE i \in LetterIndex : UpperLetters[i] = c]]

\* a character that is not a lower-case letter is its own upper case
toUpperCaseChar(c) == IF c \in LowerSet THEN UpperOf[c] ELSE c

toLowerCaseChar(c) == IF c \in UpperSet THEN LowerOf[c] ELSE c

toUpperCase(s) == [i \in 1..Len(s) |-> toUpperCaseChar(s[i])]

toLowerCase(s) == [i \in 1..Len(s) |-> toLowerCaseChar(s[i])]

\* \w of a JavaScript regular expression
WordChars == LowerSet \cup UpperSet \cup {Digits[i] : i \in DOMAIN Digits} \cup {"_"}

IsWordChar(c) == c \in WordChars

\* s.charAt(0): the empty string when s is empty
charAt0(s) == IF Len(s) = 0 THEN <<>> ELSE <<s[1]>>

\* s.slice(1)
slice1(s) == IF Len(s) = 0 THEN <<>> ELSE Tail(s)

\* s.includes(c) for a one-character c
includes(s, c) == \E i \in 1..Len(s) : s[i] = c

\* s.endsWith(suffix)
endsWith(s, suffix) ==
    /\ Len(suffix) <= Len(s)
    /\ SubSeq(s, Len(s) - Len(suffix) + 1, Len(s)) = suffix

\* s.indexOf(pat), 1-based; 0 when pat does not occur
indexOf(s, pat) ==
    With({i \in 1..(Len(s) - Len(pat) + 1) : SubSeq(s, i, i + Len(pat) - 1) = pat},
         LAMBDA hits : IF hits = {} THEN 0 ELSE CHOOSE i \in hits : \A j \in hits : i <= j)

\* s.split(c) for a one-character separator c: always at least one part
RECURSIVE split(_, _)
split(s, c) ==
    With(indexOf(s, <<c>>),
         LAMBDA i : IF i = 0 THEN <<s>>
                    ELSE With(SubSeq(s, i + 1, Len(s)),
                              LAMBDA rest : <<SubSeq(s, 1, i - 1)>> \o split(rest, c)))

\* parts.join(c)
RECURSIVE join(_, _)
join(parts, c) ==
    IF Len(parts) = 0 THEN <<>>
    ELSE IF Len(parts) = 1 THEN parts[1]
    ELSE parts[1] \o <<c>> \o join(Tail(parts), c)

\* s.replace(pat, by) with a string pattern: the first occurrence only
replaceFirst(s, pat, by) ==
    With(indexOf(s, pat),
         LAMBDA i : IF i = 0 THEN s
                    ELSE SubSeq(s, 1, i - 1) \o by \o SubSeq(s, i + Len(pat), Len(s)))

-----------------------------------------------------------------------------
(* pluralize.singular, the library call of normalizeLink (src/main.ts:291). *)
(* A rule is the set of the lower-case suffixes its regular expression     *)
(* accepts; pat is the matched text, its first `keep` characters are the   *)
(* capture $1, `add` is appended to it, wb stands for a leading \b and bol *)
(* for a leading ^.  Strings are over letters, digits, "_" and OtherChars. *)

OtherChars == {" ", "/", ".", "|", "[", "]", "-"}

NonWordSet == OtherChars

\* the characters a negated class [^...] accepts, under the i flag
NotIn(excluded) ==
    ((LowerSet \cup {Digits[i] : i \in DOMAIN Digits} \cup {"_"}) \ excluded)
        \cup NonWordSet

Alt(p, tail, add, wb, bol) ==
    [pat |-> p \o tail, keep |-> Len(p), add |-> add, wb |-> wb, bol |-> bol]

Rule(pats, tails, add) == {Alt(p, t, add, FALSE, FALSE) : p \in pats, t \in tails}

RuleWB(pats, tails, add) == {Alt(p, t, add, TRUE, FALSE) : p \in pats, t \in tails}

\* an uncountable pattern keeps the whole match ($0)
Keep(pats) == {Alt(p, <<>>, <<>>, FALSE, FALSE) : p \in pats}

\* the singularization rules, in the order the library adds them; the last
\* rule that matches wins
SingularRules == <<
    \* /s$/i -> ''
    {[pat |-> <<"s">>, keep |-> 0, add |-> <<>>, wb |-> FALSE, bol |-> FALSE]},
    \* /(ss)$/i -> $1
    Rule({<<"s", "s">>}, {<<>>}, <<>>),
    \* /(wi|kni|(?:after|half|high|low|mid|non|night|[^\w]|^)li)ves$/i -> $1fe
    Rule({<<"w", "i">>, <<"k", "n", "i">>, <<"a", "f", "t", "e", "r", "l", "i">>, <<"h", "a", "l", "f", "l", "i">>, <<"h", "i", "g", "h", "l", "i">>, <<"l", "o", "w", "l", "i">>, <<"m", "i", "d", "l", "i">>,
          <<"n", "o", "n", "l", "i">>, <<"n", "i", "g", "h", "t", "l", "i">>} \cup {<<c>> \o <<"l", "i">> : c \in NonWordSet},
         {<<"v", "e", "s">>}, <<"f", "e">>)
      \cup {Alt(<<"l", "i">>, <<"v", "e", "s">>, <<"f", "e">>, FALSE, TRUE)},
    \* /(ar|(?:wo|[ae])l|[eo][ao])ves$/i -> $1f
    Rule({<<"a", "r">>, <<"w", "o", "l">>, <<"a", "l">>, <<"e", "l">>, <<"e", "a">>, <<"e", "o">>, <<"o", "a">>, <<"o", "o">>}, {<<"v", "e", "s">>}, <<"f">>),
    \* /ies$/i -> 'y'
    {[pat |-> <<"i", "e", "s">>, keep |-> 0, add |-> <<"y">>, wb |-> FALSE, bol |-> FALSE]},
    \* /(dg|ss|ois|lk|ok|wn|mb|th|ch|ec|oal|is|ck|ix|sser|ts|wb)ies$/i -> $1ie
    Rule({<<"d", "g">>, <<"s", "s">>, <<"o", "i", "s">>, <<"l", "k">>, <<"o", "k">>, <<"w", "n">>, <<"m", "b">>, <<"t", "h">>, <<"c", "h">>, <<"e", "c">>,
          <<"o", "a", "l">>, <<"i", "s">>, <<"c", "k">>, <<"i", "x">>, <<"s", "s", "e", "r">>, <<"t", "s">>, <<"w", "b">>}, {<<"i", "e", "s">>}, <<"i", "e">>),
    \* /\b(l|(?:neck|cross|hog|aun)?t|coll|faer|food|gen|goon|group|hipp|junk|vegg|(?:pork)?p|charl|calor|cut)ies$/i -> $1ie
    RuleWB({<<"l">>, <<"t">>, <<"n", "e", "c", "k", "t">>, <<"c", "r", "o", "s", "s", "t">>, <<"h", "o", "g", "t">>, <<"a", "u", "n", "t">>, <<"c", "o", "l", "l">>, <<"f", "a", "e", "r">>,
            <<"f", "o", "o", "d">>, <<"g", "e", "n">>, <<"g", "o", "o", "n">>, <<"g", "r", "o", "u", "p">>, <<"h", "i", "p", "p">>, <<"j", "u", "n", "k">>, <<"v", "e", "g", "g">>, <<"p">>,
            <<"p", "o", "r", "k", "p">>, <<"c", "h", "a", "r", "l">>, <<"c", "a", "l", "o", "r">>, <<"c", "u", "t">>}, {<<"i", "e", "s">>}, <<"i", "e">>),
    \* /\b(mon|smil)ies$/i -> $1ey
    RuleWB({<<"m", "o", "n">>, <<"s", "m", "i", "l">>}, {<<"i", "e", "s">>}, <<"e", "y">>),
    \* /\b((?:tit)?m|l)ice$/i -> $1ouse
    RuleWB({<<"m">>, <<"t", "i", "t", "m">>, <<"l">>}, {<<"i", "c", "e">>}, <<"o", "u", "s", "e">>),
    \* /(seraph|cherub)im$/i -> $1
    Rule({<<"s", "e", "r", "a", "p", "h">>, <<"c", "h", "e", "r", "u", "b">>}, {<<"i", "m">>}, <<>>),
    \* /(x|ch|ss|sh|zz|tto|go|cho|alias|[^aou]us|t[lm]as|gas|(?:her|at|gr)o|[aeiou]ris)(?:es)?$/i -> $1
    Rule({<<"x">>, <<"c", "h">>, <<"s", "s">>, <<"s", "h">>, <<"z", "z">>, <<"t", "t", "o">>, <<"g", "o">>, <<"c", "h", "o">>, <<"a", "l", "i", "a", "s">>,
          <<"t", "l", "a", "s">>, <<"t", "m", "a", "s">>, <<"g", "a", "s">>, <<"h", "e", "r", "o">>, <<"a", "t", "o">>, <<"g", "r", "o">>}
            \cup {<<c>> \o <<"u", "s">> : c \in NotIn({"a", "o", "u"})}
            \cup {<<c>> \o <<"r", "i", "s">> : c \in {"a", "e", "i", "o", "u"}},
         {<<"e", "s">>, <<>>}, <<>>),
    \* /(analy|diagno|parenthe|progno|synop|the|empha|cri|ne)(?:sis|ses)$/i -> $1sis
    Rule({<<"a", "n", "a", "l", "y">>, <<"d", "i", "a", "g", "n", "o">>, <<"p", "a", "r", "e", "n", "t", "h", "e">>, <<"p", "r", "o", "g", "n", "o">>, <<"s", "y", "n", "o", "p">>, <<"t", "h", "e">>, <<"e", "m", "p", "h", "a">>,
          <<"c", "r", "i">>, <<"n", "e">>}, {<<"s", "i", "s">>, <<"s", "e", "s">>}, <<"s", "i", "s">>),
    \* /(movie|twelve|abuse|e[mn]u)s$/i -> $1
    Rule({<<"m", "o", "v", "i", "e">>, <<"t", "w", "e", "l", "v", "e">>, <<"a", "b", "u", "s", "e">>, <<"e", "m", "u">>, <<"e", "n", "u">>}, {<<"s">>}, <<>>),
    \* /(test)(?:is|es)$/i -> $1is
    Rule({<<"t", "e", "s", "t">>}, {<<"i", "s">>, <<"e", "s">>}, <<"i", "s">>),
    \* /(alumn|syllab|vir|radi|nucle|fung|cact|stimul|termin|bacill|foc|uter|loc|strat)(?:us|i)$/i -> $1us
    Rule({<<"a", "l", "u", "m", "n">>, <<"s", "y", "l", "l", "a", "b">>, <<"v", "i", "r">>, <<"r", "a", "d", "i">>, <<"n", "u", "c", "l", "e">>, <<"f", "u", "n", "g">>, <<"c", "a", "c", "t">>,
          <<"s", "t", "i", "m", "u", "l">>, <<"t", "e", "r", "m", "i", "n">>, <<"b", "a", "c", "i", "l", "l">>, <<"f", "o", "c">>, <<"u", "t", "e", "r">>, <<"l", "o", "c">>, <<"s", "t", "r", "a", "t">>},
         {<<"u", "s">>, <<"i">>}, <<"u", "s">>),
    \* /(agend|addend|millenni|dat|extrem|bacteri|desiderat|strat|candelabr|errat|ov|symposi|curricul|quor)a$/i -> $1um
    Rule({<<"a", "g", "e", "n", "d">>, <<"a", "d", "d", "e", "n", "d">>, <<"m", "i", "l", "l", "e", "n", "n", "i">>, <<"d", "a", "t">>, <<"e", "x", "t", "r", "e", "m">>, <<"b", "a", "c", "t", "e", "r", "i">>,
          <<"d", "e", "s", "i", "d", "e", "r", "a", "t">>, <<"s", "t", "r", "a", "t">>, <<"c", "a", "n", "d", "e", "l", "a", "b", "r">>, <<"e", "r", "r", "a", "t">>, <<"o", "v">>, <<"s", "y", "m", "p", "o", "s", "i">>,
          <<"c", "u", "r", "r", "i", "c", "u", "l">>, <<"q", "u", "o", "r">>}, {<<"a">>}, <<"u", "m">>),
    \* /(apheli|hyperbat|periheli|asyndet|noumen|phenomen|criteri|organ|prolegomen|hedr|automat)a$/i -> $1on
    Rule({<<"a", "p", "h", "e", "l", "i">>, <<"h", "y", "p", "e", "r", "b", "a", "t">>, <<"p", "e", "r", "i", "h", "e", "l", "i">>, <<"a", "s", "y", "n", "d", "e", "t">>, <<"n", "o", "u", "m", "e", "n">>, <<"p", "h", "e", "n", "o", "m", "e", "n">>,
          <<"c", "r", "i", "t", "e", "r", "i">>, <<"o", "r", "g", "a", "n">>, <<"p", "r", "o", "l", "e", "g", "o", "m", "e", "n">>, <<"h", "e", "d", "r">>, <<"a", "u", "t", "o", "m", "a", "t">>}, {<<"a">>}, <<"o", "n">>),
    \* /(alumn|alg|vertebr)ae$/i -> $1a
    Rule({<<"a", "l", "u", "m", "n">>, <<"a", "l", "g">>, <<"v", "e", "r", "t", "e", "b", "r">>}, {<<"a", "e">>}, <<"a">>),
    \* /(cod|mur|sil|vert|ind)ices$/i -> $1ex
    Rule({<<"c", "o", "d">>, <<"m", "u", "r">>, <<"s", "i", "l">>, <<"v", "e", "r", "t">>, <<"i", "n", "d">>}, {<<"i", "c", "e", "s">>}, <<"e", "x">>),
    \* /(matr|append)ices$/i -> $1ix
    Rule({<<"m", "a", "t", "r">>, <<"a", "p", "p", "e", "n", "d">>}, {<<"i", "c", "e", "s">>}, <<"i", "x">>),
    \* /(pe)(rson|ople)$/i -> $1rson
    Rule({<<"p", "e">>}, {<<"r", "s", "o", "n">>, <<"o", "p", "l", "e">>}, <<"r", "s", "o", "n">>),
    \* /(child)ren$/i -> $1
    Rule({<<"c", "h", "i", "l", "d">>}, {<<"r", "e", "n">>}, <<>>),
    \* /(eau)x?$/i -> $1
    Rule({<<"e", "a", "u">>}, {<<"x">>, <<>>}, <<>>),
    \* /men$/i -> 'man'
    {[pat |-> <<"m", "e", "n">>, keep |-> 0, add |-> <<"m", "a", "n">>, wb |-> FALSE, bol |-> FALSE]},
    \* uncountable patterns: /[^aeiou]ese$/i /deer$/i /fish$/i /measles$/i
    \* /o[iu]s$/i /pox$/i /sheep$/i /pokemon$/i
    Keep({<<c>> \o <<"e", "s", "e">> : c \in NotIn({"a", "e", "i", "o", "u"})}),
    Keep({<<"d", "e", "e", "r">>}),
    Keep({<<"f", "i", "s", "h">>}),
    Keep({<<"m", "e", "a", "s", "l", "e", "s">>}),
    Keep({<<"o", "i", "s">>, <<"o", "u", "s">>}),
    Keep({<<"p", "o", "x">>}),
    Keep({<<"s", "h", "e", "e", "p">>}),
    Keep({<<"p", "o", "k", "e", "m", "o", "n">>})
>>

\* irregular (singular, plural) pairs of the library
IrregularRules == {
    <<<<"i">>, <<"w", "e">>>>, <<<<"m", "e">>, <<"u", "s">>>>, <<<<"t", "h", "i", "s">>, <<"t", "h", "e", "s", "e">>>>, <<<<"t", "h", "a", "t">>, <<"t", "h", "o", "s", "e">>>>,
    <<<<"e", "c", "h", "o">>, <<"e", "c", "h", "o", "e", "s">>>>, <<<<"g", "e", "n", "u", "s">>, <<"g", "e", "n", "e", "r", "a">>>>, <<<<"s", "c", "h", "e", "m", "a">>, <<"s", "c", "h", "e", "m", "a", "t", "a">>>>,
    <<<<"o", "x">>, <<"o", "x", "e", "n">>>>, <<<<"a", "x", "e">>, <<"a", "x", "e", "s">>>>, <<<<"d", "i", "e">>, <<"d", "i", "c", "e">>>>, <<<<"y", "e", "s">>, <<"y", "e", "s", "e", "s">>>>,
    <<<<"f", "o", "o", "t">>, <<"f", "e", "e", "t">>>>, <<<<"g", "o", "o", "s", "e">>, <<"g", "e", "e", "s", "e">>>>, <<<<"t", "o", "o", "t", "h">>, <<"t", "e", "e", "t", "h">>>>,
    <<<<"q", "u", "i", "z">>, <<"q", "u", "i", "z", "z", "e", "s">>>>, <<<<"h", "u", "m", "a", "n">>, <<"h", "u", "m", "a", "n", "s">>>>, <<<<"p", "r", "o", "o", "f">>, <<"p", "r", "o", "o", "f", "s">>>>,
    <<<<"v", "a", "l", "v", "e">>, <<"v", "a", "l", "v", "e", "s">>>>, <<<<"t", "h", "i", "e", "f">>, <<"t", "h", "i", "e", "v", "e", "s">>>>, <<<<"g", "r", "o", "o", "v", "e">>, <<"g", "r", "o", "o", "v", "e", "s">>>>
}

\* uncountable words of the library
Uncountables == {
    <<"n", "e", "w", "s">>, <<"s", "e", "r", "i", "e", "s">>, <<"s", "p", "e", "c", "i", "e", "s">>, <<"e", "q", "u", "i", "p", "m", "e", "n", "t">>, <<"i", "n", "f", "o", "r", "m", "a", "t", "i", "o", "n">>, <<"s", "o", "f", "t", "w", "a", "r", "e">>,
    <<"m", "u", "s", "i", "c">>, <<"c", "h", "e", "s", "s">>, <<"r", "i", "c", "e">>, <<"m", "o", "n", "e", "y">>, <<"a", "d", "v", "i", "c", "e">>, <<"a", "i", "r", "c", "r", "a", "f", "t">>, <<"b", "i", "s", "o", "n">>,
    <<"r", "e", "s", "e", "a", "r", "c", "h">>, <<"s", "a", "l", "m", "o", "n">>, <<"t", "r", "o", "u", "t">>, <<"t", "u", "n", "a">>, <<"w", "i", "l", "d", "l", "i", "f", "e">>, <<"y", "o", "u">>
}

\* restoreCase(word, token): give the replacement the case pattern of the match
restoreCase(word, token) ==
    IF word = token THEN token
    ELSE IF word = toLowerCase(word) THEN toLowerCase(token)
    ELSE IF word = toUpperCase(word) THEN toUpperCase(token)
    ELSE IF toUpperCaseChar(word[1]) = word[1]
         THEN toUpperCase(charAt0(token)) \o toLowerCase(slice1(token))
    ELSE toLowerCase(token)

\* every alternative with the number of its rule, and the alternatives by suffix
AltsOf == UNION {{[rule |-> i, alt |-> a] : a \in SingularRules[i]} : i \in DOMAIN SingularRules}

PatSet == {x.alt.pat : x \in AltsOf}

ByPat == [p \in PatSet |-> {x \in AltsOf : x.alt.pat = p}]

\* the alternatives, of any rule, that match at the end of word
RuleMatches(word) ==
    LET lw == toLowerCase(word)
        n == Len(word)
        bySuffix == UNION {IF SubSeq(lw, k, n) \in PatSet THEN ByPat[SubSeq(lw, k, n)] ELSE {} :
                              k \in 1..n}
    IN {x \in bySuffix :
           LET start == n - Len(x.alt.pat) + 1
           IN /\ x.alt.wb => (start = 1 \/ ~IsWordChar(word[start - 1]))
              /\ x.alt.bol => start = 1}

\* replace(word, rule) with the alternative a of the rule: the match is rewritten
replace(word, a) ==
    LET start == Len(word) - Len(a.pat) + 1
        match == SubSeq(word, start, Len(word))
    IN SubSeq(word, 1, start - 1) \o restoreCase(match, SubSeq(match, 1, a.keep) \o a.add)

\* sanitizeWord(token, word, rules): the last rule that matches is used, at its
\* leftmost (longest) match
sanitizeWord(token, word) ==
    IF Len(token) = 0 \/ token \in Uncountables THEN word
    ELSE LET m == RuleMatches(word)
         IN IF m = {} THEN word
            ELSE replace(word, (CHOOSE x \in m : \A y \in m :
                                   \/ y.rule < x.rule
                                   \/ y.rule = x.rule /\ Len(y.alt.pat) <= Len(x.alt.pat)).alt)

\* pluralize.singular(word) = replaceWord(irregularPlurals, irregularSingles, singularRules)
singular(word) ==
    LET token == toLowerCase(word)
    IN IF \E p \in IrregularRules : p[1] = token THEN restoreCase(word, token)
       ELSE IF \E p \in IrregularRules : p[2] = token
            THEN restoreCase(word, (CHOOSE p \in IrregularRules : p[2] = token)[1])
       ELSE sanitizeWord(token, word)

-----------------------------------------------------------------------------
(* TopicExplorer.normalizeLink                                             *)

CapitalizeOnly == [capitalizeLinks |-> TRUE, singularizeLinks |-> FALSE]

SingularizeOnly == [capitalizeLinks |-> FALSE, singularizeLinks |-> TRUE]

\* the alias is re-attached although link_text still holds it
normalizeLink_aliasKept(cfg, l) ==
    LET alias == IF includes(l, "|") THEN <<"|">> \o join(Tail(split(l, "|")), "|") ELSE <<>>
        n1 == IF cfg.capitalizeLinks THEN toUpperCase(charAt0(l)) \o slice1(l) ELSE l
        n2 == IF cfg.singularizeLinks THEN singular(n1) ELSE n1
    IN n2 \o alias

\* only the part after the first pipe is kept as the alias
normalizeLink_firstAliasPart(cfg, l) ==
    LET parts == split(l, "|")
        link_text == IF includes(l, "|") THEN parts[1] ELSE l
        alias == IF includes(l, "|") THEN <<"|">> \o parts[2] ELSE <<>>
        n1 == IF cfg.capitalizeLinks
              THEN toUpperCase(charAt0(link_text)) \o slice1(link_text)
              ELSE link_text
        n2 == IF cfg.singularizeLinks THEN singular(n1) ELSE n1
    IN n2 \o alias

\* the two rules applied in the other order
normalizeLink_singularFirst(cfg, l) ==
    LET parts == split(l, "|")
        link_text == IF includes(l, "|") THEN parts[1] ELSE l
        alias == IF includes(l, "|") THEN <<"|">> \o join(Tail(parts), "|") ELSE <<>>
        n1 == IF cfg.singularizeLinks THEN singular(link_text) ELSE link_text
        n2 == IF cfg.capitalizeLinks THEN toUpperCase(charAt0(n1)) \o slice1(n1) ELSE n1
    IN n2 \o alias

\* normalizeLink under the settings cfg
normalizeLinkWith(cfg, l) ==
    LET parts == split(l, "|")
        link_text == IF includes(l, "|") THEN parts[1] ELSE l
        alias == IF includes(l, "|") THEN <<"|">> \o join(Tail(parts), "|") ELSE <<>>
        \* Rule 1: capitalize the first letter (if enabled)
        n1 == IF cfg.capitalizeLinks
              THEN toUpperCase(charAt0(link_text)) \o slice1(link_text)
              ELSE link_text
        \* Rule 2: convert to singular form (if enabled)
        n2 == IF cfg.singularizeLinks THEN singular(n1) ELSE n1
    IN n2 \o alias

normalizeLink(l) == normalizeLinkWith(settings, l)

normalizeLinkPath(l) == l \o <<".", "m", "d">>

\* link.includes('|') ? link.split('|')[0] : link
link_target(l) == IF includes(l, "|") THEN split(l, "|")[1] ELSE l

-----------------------------------------------------------------------------
(* The document store (app.vault) and TopicExplorer.fileExistsInVault.     *)
(* The vault is the set of the paths of its files.                         *)

getAbstractFileByPath(path) == path \in vault

getAllLoadedFiles == vault

\* file.path.split('/').pop()
lastSegment(path) == LET parts == split(path, "/") IN parts[Len(parts)]

fileExistsInVault(l) ==
    LET link_text == IF includes(l, "|") THEN split(l, "|")[1] ELSE l
        exact_path == normalizeLinkPath(link_text)
    IN IF getAbstractFileByPath(exact_path) THEN TRUE
       ELSE \E file \in getAllLoadedFiles :
               /\ endsWith(file, <<".", "m", "d">>)
               /\ toLowerCase(replaceFirst(lastSegment(file), <<".", "m", "d">>, <<>>))
                     = toLowerCase(link_text)

-----------------------------------------------------------------------------
(* WIKILINK_REGEX = /\[\[([^\]]+)\]\]/g and the exec loop that collects    *)
(* match[1].                                                               *)

\* index of the first "]" at or after position i, Len(text) + 1 when none
nextClose(text, i) ==
    With({k \in i..Len(text) : text[k] = "]"},
         LAMBDA c : IF c = {} THEN Len(text) + 1 ELSE CHOOSE k \in c : \A j \in c : k <= j)

\* a match whose run may be empty
matchesAt_emptyRun(text, j) ==
    /\ j + 3 <= Len(text)
    /\ text[j] = "[" /\ text[j + 1] = "["
    /\ With(nextClose(text, j + 2),
            LAMBDA k : k + 1 <= Len(text) /\ text[k + 1] = "]")

\* a match starts at j: "[[", a non-empty run without "]", then "]]"
matchesAt(text, j) ==
    /\ j + 4 <= Len(text)
    /\ text[j] = "[" /\ text[j + 1] = "["
    /\ With(nextClose(text, j + 2),
            LAMBDA k : k > j + 2 /\ k + 1 <= Len(text) /\ text[k + 1] = "]")

\* exec that resumes one character after the start of the last match
RECURSIVE execFrom_fromStart(_, _)
execFrom_fromStart(text, lastIndex) ==
    With({j \in lastIndex..Len(text) : matchesAt(text, j)},
         LAMBDA starts :
            IF starts = {} THEN <<>>
            ELSE With(CHOOSE x \in starts : \A y \in starts : x <= y,
                      LAMBDA j :
                         <<SubSeq(text, j + 2, nextClose(text, j + 2) - 1)>>
                            \o execFrom_fromStart(text, j + 1)))

\* regex.exec from lastIndex on: the leftmost match, then on from its end
RECURSIVE execFrom(_, _)
execFrom(text, lastIndex) ==
    With({j \in lastIndex..Len(text) : matchesAt(text, j)},
         LAMBDA starts :
            IF starts = {} THEN <<>>
            ELSE With(nextClose(text, (CHOOSE x \in starts : \A y \in starts : x <= y) + 2),
                      LAMBDA k :
                         With(SubSeq(text, (CHOOSE x \in starts : \A y \in starts : x <= y) + 2, k - 1),
                              LAMBDA token : <<token>> \o execFrom(text, k + 2))))

\* a scan that takes an unclosed "[[" with the rest of the text as a token
scanWikilinks_unclosed(text) ==
    With({j \in 1..(Len(text) - 2) : text[j] = "[" /\ text[j + 1] = "["},
         LAMBDA opens :
            IF execFrom(text, 1) = <<>> /\ opens # {}
            THEN <<SubSeq(text, (CHOOSE j \in opens : \A x \in opens : j <= x) + 2, Len(text))>>
            ELSE execFrom(text, 1))

\* the wikilinks array of detectDeadWikilinks and updateView
scanWikilinks(text) == execFrom(text, 1)

-----------------------------------------------------------------------------
(* Set<string> and Map<string, string>, kept in insertion order.           *)

Range(s) == {s[i] : i \in DOMAIN s}

SetAdd(s, x) == IF x \in Range(s) THEN s ELSE Append(s, x)

MapHas(m, k) == \E i \in DOMAIN m : m[i][1] = k

MapGet(m, k) == m[CHOOSE i \in DOMAIN m : m[i][1] = k][2]

MapSet(m, k, v) ==
    IF MapHas(m, k)
    THEN [i \in DOMAIN m |-> IF m[i][1] = k THEN <<k, v>> ELSE m[i]]
    ELSE Append(m, <<k, v>>)

\* map.get(link) || link : an absent or empty value gives the link itself
GetOrLink(m, l) == IF MapHas(m, l) /\ MapGet(m, l) # <<>> THEN MapGet(m, l) ELSE l

-----------------------------------------------------------------------------
(* The first pass of detectDeadWikilinks and the pass of updateView.       *)

EmptyReport == [map |-> <<>>, dead |-> <<>>]

\* the entry is recorded when the result differs from the whole reference
detectStep_compareWhole(acc, l) ==
    With(link_target(l), LAMBDA target :
    With(normalizeLink(target), LAMBDA normalized_link :
        [map  |-> IF normalized_link # l
                  THEN MapSet(acc.map, l, normalized_link) ELSE acc.map,
         dead |-> IF ~fileExistsInVault(normalized_link)
                  THEN SetAdd(acc.dead, l) ELSE acc.dead]))

\* body of the loop of detectDeadWikilinks
detectStep(acc, l) ==
    With(link_target(l), LAMBDA target :
    With(normalizeLink(target), LAMBDA normalized_link :
        [map  |-> IF normalized_link # target
                  THEN MapSet(acc.map, l, normalized_link) ELSE acc.map,
         dead |-> IF ~fileExistsInVault(normalized_link)
                  THEN SetAdd(acc.dead, l) ELSE acc.dead]))

\* the loop of detectDeadWikilinks over the first n wikilinks
RECURSIVE detectFirstPass(_, _)
detectFirstPass(wikilinks, n) ==
    IF n = 0 THEN EmptyReport
    ELSE With(detectFirstPass(wikilinks, n - 1), LAMBDA acc : detectStep(acc, wikilinks[n]))

\* the existence check is made on the target as written
viewStep_checkWritten(acc, l) ==
    With(link_target(l), LAMBDA target :
    With(normalizeLink(target), LAMBDA normalized_link :
        [map  |-> IF normalized_link # target
                  THEN MapSet(acc.map, l, normalized_link) ELSE acc.map,
         dead |-> IF ~fileExistsInVault(target)
                  THEN SetAdd(acc.dead, l) ELSE acc.dead]))

\* body of the loop of updateView
viewStep(acc, l) ==
    With(link_target(l), LAMBDA target :
    With(normalizeLink(target), LAMBDA normalized_link :
        [map  |-> IF normalized_link # target
                  THEN MapSet(acc.map, l, normalized_link) ELSE acc.map,
         dead |-> IF ~fileExistsInVault(normalized_link)
                  THEN SetAdd(acc.dead, l) ELSE acc.dead]))

\* the loop of updateView over the first n wikilinks
RECURSIVE viewPass(_, _)
viewPass(wikilinks, n) ==
    IF n = 0 THEN EmptyReport
    ELSE With(viewPass(wikilinks, n - 1), LAMBDA acc : viewStep(acc, wikilinks[n]))

\* the second pass walks the normalization map instead of the dead set
settle_overMap(dead, map) ==
    IF Len(map) > 0
    THEN LET keys == [i \in DOMAIN map |-> map[i][1]]
             still(l) == ~getAbstractFileByPath(normalizeLinkPath(GetOrLink(map, l)))
         IN SelectSeq(keys, still)
    ELSE dead

\* the second pass checks the path of the target, without the alias
settle_targetPath(dead, map) ==
    IF Len(map) > 0
    THEN LET still(l) ==
                ~getAbstractFileByPath(normalizeLinkPath(link_target(GetOrLink(map, l))))
         IN SelectSeq(dead, still)
    ELSE dead

\* the second pass of detectDeadWikilinks: stillDeadLinksSet
settle(dead, map) ==
    IF Len(map) > 0
    THEN LET still(l) == ~getAbstractFileByPath(normalizeLinkPath(GetOrLink(map, l)))
         IN SelectSeq(dead, still)
    ELSE dead

-----------------------------------------------------------------------------
(* ResearchTopicsView.applyNormalization: every [[original]] of the        *)
(* document becomes [[normalized]].                                        *)

RECURSIVE replaceAll(_, _, _)
replaceAll(s, pat, by) ==
    With(indexOf(s, pat),
         LAMBDA i : IF i = 0 THEN s
                    ELSE With(SubSeq(s, i + Len(pat), Len(s)),
                              LAMBDA rest : SubSeq(s, 1, i - 1) \o by \o replaceAll(rest, pat, by)))

wikilink(l) == <<"[", "[">> \o l \o <<"]", "]">>

-----------------------------------------------------------------------------
(* Inputs.                                                                 *)

AllSettings == [capitalizeLinks : BOOLEAN, singularizeLinks : BOOLEAN]

\* reference tokens a document is written with
RefTokens == {<<"d", "o", "g", "s">>, <<"C", "a", "t", "|", "m", "y", " ", "c", "a", "t">>, <<"d", "o", "g", "s", "|", "m", "y", " ", "d", "o", "g", "s">>, <<"s">>}

\* a document with the references toks
RECURSIVE Render(_)
Render(toks) ==
    IF Len(toks) = 0 THEN <<".">>
    ELSE <<" ", "a", "n", "d", " ">> \o wikilink(Head(toks)) \o Render(Tail(toks))

\* texts without reference, with unbalanced brackets, with an empty target
MalformedTexts == {<<>>, <<"[", "[", "d", "o", "g", "s">>, <<"d", "o", "g", "s", "]", "]", " ", "[", "[">>, <<"[", "[", "]", "]">>, <<"[", "[", "|", "a", "l", "i", "a", "s", "]", "]">>,
                   <<"[", "[", "|", "a", "l", "i", "a", "s", "]", "]", " ", "[", "[", "d", "o", "g", "s", "]", "]">>}

Texts == {<<"S", "e", "e", ".">> } \cup MalformedTexts \cup
         {<<"S", "e", "e", " ">> \o wikilink(Head(toks)) \o Render(Tail(toks)) :
             toks \in UNION {[1..n -> RefTokens] : n \in 1..MaxRefs}}

ScenarioText == <<"S", "e", "e", " ", "[", "[", "d", "o", "g", "s", "]", "]", " ", "a", "n", "d", " ", "[", "[", "C", "a", "t", "|", "m", "y", " ", "c", "a", "t", "]", "]", ".">>

\* paths of documents a vault may hold
Paths == {<<"D", "o", "g", ".", "m", "d">>, <<"n", "o", "t", "e", "s", "/", "d", "o", "g", ".", "m", "d">>, <<"C", "a", "t", "|", "m", "y", " ", "c", "a", "t", ".", "m", "d">>, <<"s", ".", "m", "d">>}

Vaults(paths) == {v \in SUBSET paths : Cardinality(v) <= MaxVault}

\* targets given to normalizeLink: regular and irregular plurals, singular
\* and invariant words, mixed case, an empty target, a folder prefix
NormTargets == {
    <<>>, <<"s">>, <<"d", "o", "g", "s">>, <<"D", "o", "g", "s">>, <<"D", "O", "G", "S">>, <<"d", "o", "g">>, <<"C", "a", "t">>, <<"c", "a", "t">>, <<"b", "u", "s", "e", "s">>, <<"b", "u", "s">>,
    <<"b", "o", "x", "e", "s">>, <<"c", "i", "t", "i", "e", "s">>, <<"c", "i", "t", "y">>, <<"w", "o", "l", "v", "e", "s">>, <<"k", "n", "i", "v", "e", "s">>, <<"m", "i", "c", "e">>, <<"c", "h", "i", "l", "d", "r", "e", "n">>,
    <<"p", "e", "o", "p", "l", "e">>, <<"p", "e", "r", "s", "o", "n">>, <<"m", "e", "n">>, <<"m", "E", "N">>, <<"w", "o", "m", "e", "n">>, <<"n", "e", "w", "s">>, <<"s", "h", "e", "e", "p">>, <<"f", "i", "s", "h">>,
    <<"s", "e", "r", "i", "e", "s">>, <<"a", "n", "a", "l", "y", "s", "e", "s">>, <<"a", "n", "a", "l", "y", "s", "i", "s">>, <<"g", "l", "a", "s", "s">>, <<"g", "l", "a", "s", "s", "e", "s">>, <<"u", "s">>, <<"g", "e", "e", "s", "e">>,
    <<"f", "e", "e", "t">>, <<"o", "x", "e", "n">>, <<"c", "r", "i", "t", "e", "r", "i", "a">>, <<"i", "n", "d", "i", "c", "e", "s">>, <<"m", "a", "t", "r", "i", "c", "e", "s">>, <<"m", "o", "v", "i", "e", "s">>, <<"s", "t", "a", "t", "u", "s">>,
    <<"f", "o", "l", "d", "e", "r", "/", "d", "o", "g", "s">>, <<"t", "w", "o", " ", "w", "o", "r", "d", "s">>}

RECURSIVE AliasTails(_)
AliasTails(n) ==
    IF n = 0 THEN {<<>>}
    ELSE AliasTails(n - 1)
           \cup {Append(t, c) : t \in {x \in AliasTails(n - 1) : Len(x) = n - 1},
                                c \in {"|", "a"}}

\* no alias, or a pipe followed by display text that may hold further pipes
Aliases == {<<>>} \cup {<<"|">> \o t : t \in AliasTails(MaxAliasLen - 1)}

NormTokens == {t \o a : t \in NormTargets, a \in Aliases}

\* arguments of fileExistsInVault and the paths they are looked up in
ExistTargets == {<<"D", "o", "g">>, <<"d", "o", "g">>, <<"D", "O", "G">>, <<"f", "o", "l", "d", "e", "r", "/", "D", "o", "g">>, <<"F", "O", "L", "D", "E", "R", "/", "d", "o", "g">>, <<"a", ".", "m", "d", "b">>,
                 <<"A", ".", "m", "d", "b">>, <<"a", "b", ".", "m", "d">>, <<"C", "a", "t">>, <<"c", "a", "t", "|", "x">>, <<"n", "o", "t", "e", "s">>}

ExistPaths == {<<"D", "o", "g", ".", "m", "d">>, <<"d", "o", "g", ".", "m", "d">>, <<"f", "o", "l", "d", "e", "r", "/", "D", "o", "g", ".", "m", "d">>, <<"a", ".", "m", "d", "b", ".", "m", "d">>, <<"n", "o", "t", "e", "s", "/", "c", "a", "t", ".", "m", "d">>,
               <<"r", "e", "a", "d", "m", "e", ".", "t", "x", "t">>}

-----------------------------------------------------------------------------
(* Reconciliation: the command and the sidebar.                            *)

Idle ==
    /\ link = <<>> /\ normalized = <<>> /\ renormalized = <<>> /\ file_exists = FALSE

NoScan ==
    /\ scanned = <<>> /\ rescanned = <<>>

\* nothing has run yet of the operations modelled further down
\* no file is being created
NoCreation ==
    [pc |-> "idle", caller |-> "none", link |-> <<>>, file_path |-> <<>>,
     service |-> "none", content |-> <<>>, attempted |-> FALSE, success |-> FALSE]

\* no batch is running
NoBatch ==
    [pc |-> "idle", deadLinks |-> <<>>, normalizedLinks |-> <<>>, messageItems |-> <<>>,
     i |-> 0, successCount |-> 0, results |-> <<>>, item |-> NoCreation,
     calls |-> <<>>]

\* the numeric settings of DEFAULT_SETTINGS
DEFAULT_SETTINGS == [ollamaMaxTokens |-> 200, ollamaTopK |-> 40]

\* loadData() of a plugin without a data file
NoData == [none |-> TRUE]

DefaultNumbers ==
    /\ ollamaMaxTokens = DEFAULT_SETTINGS.ollamaMaxTokens
    /\ ollamaTopK = DEFAULT_SETTINGS.ollamaTopK
    /\ savedData = NoData

NoGeneration ==
    /\ useOllamaForGeneration = FALSE
    /\ customNewNoteFolder = <<>>
    /\ DefaultNumbers
    /\ reading = <<>>
    /\ containers = 0
    /\ isGenerating = FALSE
    /\ creation = NoCreation
    /\ batch = NoBatch

RestIdle == NoScan /\ NoGeneration

NoReport ==
    /\ firstDead = <<>> /\ dead_links = <<>> /\ normalized_links = <<>>
    /\ view_dead = <<>> /\ view_normalized = <<>>

Init ==
    /\ settings \in AllSettings
    /\ vault \in Vaults(Paths)
    /\ content \in Texts
    /\ NoReport
    /\ Idle
    /\ RestIdle
    /\ op = "init"

\* updateView from its flag check to the end of its pass: the awaited vault.read
\* returns the text of the active document before any other handler runs; with
\* no wikilink the empty lists are built
SidebarPass(text) ==
    \E wikilinks \in {scanWikilinks(text)} :
    \E pass \in {viewPass(wikilinks, Len(wikilinks))} :
       /\ view_dead' = pass.dead
       /\ view_normalized' = pass.map

\* detectDeadWikilinks; with no wikilink it returns after the notice, otherwise
\* it hands dead_links and normalized_links to the modal and calls updateView
DetectDeadWikilinks ==
    \E wikilinks \in {scanWikilinks(content)} :
       IF Len(wikilinks) = 0
       THEN /\ firstDead' = <<>>
            /\ dead_links' = <<>>
            /\ normalized_links' = <<>>
            /\ op' = "detect_none"
            /\ UNCHANGED <<settings, vault, content, view_dead, view_normalized,
                           link, normalized, renormalized, file_exists,
                   others>>
       ELSE \E first \in {detectFirstPass(wikilinks, Len(wikilinks))} :
            /\ firstDead' = first.dead
            /\ dead_links' = settle(first.dead, first.map)
            /\ normalized_links' = first.map
            /\ SidebarPass(content)
            /\ op' = "detect"
            /\ UNCHANGED <<settings, vault, content, link, normalized, renormalized,
                           file_exists,
                   others>>

\* updateView called by the timer, a file-open event or onOpen
UpdateView ==
    /\ SidebarPass(content)
    /\ op' = "view"
    /\ UNCHANGED <<settings, vault, content, firstDead, dead_links, normalized_links,
                   link, normalized, renormalized, file_exists,
                   others>>

\* the Normalize button of a sidebar entry: applyNormalization, then updateView
ApplyNormalization ==
    /\ \E i \in DOMAIN view_normalized :
       \E newContent \in {replaceAll(content, wikilink(view_normalized[i][1]),
                                     wikilink(view_normalized[i][2]))} :
          /\ content' = newContent
          /\ SidebarPass(newContent)
    /\ op' = "apply"
    /\ UNCHANGED <<settings, vault, firstDead, dead_links, normalized_links,
                   link, normalized, renormalized, file_exists,
                   others>>

Next ==
    \/ DetectDeadWikilinks
    \/ UpdateView
    \/ ApplyNormalization

Spec == Init /\ [][Next]_vars

-----------------------------------------------------------------------------
(* normalizeLink called on a token, and again on its own result.           *)

InitNormalize ==
    /\ settings \in AllSettings
    /\ vault = {}
    /\ content = <<>>
    /\ NoReport
    /\ link \in NormTokens
    /\ normalized = <<>> /\ renormalized = <<>> /\ file_exists = FALSE
    /\ RestIdle
    /\ op = "init"

NormalizeLink ==
    /\ op = "init"
    /\ normalized' = normalizeLink(link)
    /\ op' = "normalizeLink"
    /\ UNCHANGED <<settings, vault, content, firstDead, dead_links, normalized_links,
                   view_dead, view_normalized, link, renormalized,
                   file_exists,
                   others>>

NormalizeAgain ==
    /\ op = "normalizeLink"
    /\ renormalized' = normalizeLink(normalized)
    /\ op' = "normalizeAgain"
    /\ UNCHANGED <<settings, vault, content, firstDead, dead_links, normalized_links,
                   view_dead, view_normalized, link, normalized,
                   file_exists,
                   others>>

NextNormalize == NormalizeLink \/ NormalizeAgain

SpecNormalize == InitNormalize /\ [][NextNormalize]_vars

-----------------------------------------------------------------------------
(* fileExistsInVault called on a target.                                   *)

InitExists ==
    /\ settings \in AllSettings
    /\ vault \in Vaults(ExistPaths)
    /\ content = <<>>
    /\ NoReport
    /\ link \in ExistTargets
    /\ normalized = <<>> /\ renormalized = <<>> /\ file_exists = FALSE
    /\ RestIdle
    /\ op = "init"

FileExistsInVault ==
    /\ op = "init"
    /\ file_exists' = fileExistsInVault(link)
    /\ op' = "fileExists"
    /\ UNCHANGED <<settings, vault, content, firstDead, dead_links, normalized_links,
                   view_dead, view_normalized, link, normalized,
                   renormalized,
                   others>>

NextExists == FileExistsInVault

SpecExists == InitExists /\ [][NextExists]_vars

-----------------------------------------------------------------------------
(* What the claims speak of, stated without the code's split and join.     *)

FirstPipe(l) ==
    IF \E i \in 1..Len(l) : l[i] = "|"
    THEN CHOOSE i \in 1..Len(l) : l[i] = "|" /\ \A j \in 1..(i - 1) : l[j] # "|"
    ELSE 0

\* the text before the first pipe
TargetOf(l) == IF FirstPipe(l) = 0 THEN l ELSE SubSeq(l, 1, FirstPipe(l) - 1)

\* the text from the first pipe on
AliasOf(l) == IF FirstPipe(l) = 0 THEN <<>> ELSE SubSeq(l, FirstPipe(l), Len(l))

BothRules == settings.capitalizeLinks /\ settings.singularizeLinks

\* the distinct references of a text whose normalized target does not resolve
Unresolved(text) ==
    {l \in Range(scanWikilinks(text)) : ~fileExistsInVault(normalizeLink(TargetOf(l)))}

\* the final path segment with the ".md" suffix stripped
BaseName(path) ==
    LET slashes == {i \in 1..Len(path) : path[i] = "/"}
        from == IF slashes = {} THEN 1
                ELSE (CHOOSE i \in slashes : \A j \in slashes : j <= i) + 1
    IN SubSeq(path, from, Len(path) - Len(<<".", "m", "d">>))

\* the path form of a dead reference: its map value if it has one, else itself
PathForm(m, l) == IF MapHas(m, l) THEN MapGet(m, l) ELSE l

DetectDone == op = "detect"

ViewFresh == op \in {"detect", "view", "apply"}

-----------------------------------------------------------------------------
\* C1: the dead set of a reconciliation pass (the command's and the sidebar's)
\* is exactly the set of distinct raw references whose normalized target does
\* not resolve in the store.  The command's second pass breaks it.
C1_DeadSetIsUnresolved ==
    /\ DetectDone => Range(dead_links) = Unresolved(content)
    /\ ViewFresh => Range(view_dead) = Unresolved(content)

\* C2: the canonical string recorded for an aliased reference whose target
\* changes is the normalized target with the alias reattached.  The code
\* records the normalized target alone.
C2_AliasReattached ==
    /\ DetectDone =>
          \A i \in DOMAIN normalized_links :
             AliasOf(normalized_links[i][1]) # <<>> =>
                normalized_links[i][2]
                   = normalizeLink(TargetOf(normalized_links[i][1]))
                        \o AliasOf(normalized_links[i][1])
    /\ ViewFresh =>
          \A i \in DOMAIN view_normalized :
             AliasOf(view_normalized[i][1]) # <<>> =>
                view_normalized[i][2]
                   = normalizeLink(TargetOf(view_normalized[i][1]))
                        \o AliasOf(view_normalized[i][1])

\* a map m holds a key for exactly the references of the text whose target
\* changes under normalization
KeysAreChangedTargets(m) ==
    /\ \A l \in Range(scanWikilinks(content)) :
          MapHas(m, l) <=> normalizeLink(TargetOf(l)) # TargetOf(l)
    /\ \A i \in DOMAIN m : m[i][1] \in Range(scanWikilinks(content))

\* C3: a pass records a normalization-map entry for a reference if and only if
\* normalizing its target changes it; for 'See [[dogs]] and [[Cat|my cat]].'
\* with both rules on the map is exactly {dogs -> Dog}.
C3_EntryIffTargetChanges ==
    /\ DetectDone => KeysAreChangedTargets(normalized_links)
    /\ ViewFresh => KeysAreChangedTargets(view_normalized)
    /\ (ViewFresh /\ content = ScenarioText /\ BothRules) =>
          view_normalized = << <<<<"d", "o", "g", "s">>, <<"D", "o", "g">>>> >>
    /\ (DetectDone /\ content = ScenarioText /\ BothRules) =>
          normalized_links = << <<<<"d", "o", "g", "s">>, <<"D", "o", "g">>>> >>

C3_Witness ==
    /\ DetectDone /\ content = ScenarioText /\ BothRules
    /\ MapHas(normalized_links, <<"d", "o", "g", "s">>)
    /\ ~MapHas(normalized_links, <<"C", "a", "t", "|", "m", "y", " ", "c", "a", "t">>)
    /\ <<"C", "a", "t", "|", "m", "y", " ", "c", "a", "t">> \in Range(dead_links)

\* C4: fileExistsInVault(target) is true exactly when the store holds
\* target + ".md", or a document whose path ends in ".md" and whose base name
\* equals the target ignoring case.  The code strips the first ".md" of the
\* file name, not its suffix.
C4_ExistsIffExactOrBaseName ==
    op = "fileExists" =>
       (file_exists <=>
           \/ TargetOf(link) \o <<".", "m", "d">> \in vault
           \/ \E p \in vault :
                 /\ endsWith(p, <<".", "m", "d">>)
                 /\ toLowerCase(BaseName(p)) = toLowerCase(TargetOf(link)))

\* C5: if fileExistsInVault(X) then fileExistsInVault(Y) for every Y that
\* differs from X only in letter case, folder prefixes included.
C5_ExistsUnderCaseVariation ==
    (op = "fileExists" /\ file_exists) =>
       \A y \in ExistTargets :
          toLowerCase(y) = toLowerCase(link) => fileExistsInVault(y)

\* C6: the dead set after the second pass is a subset of the dead set after
\* the first pass, and a reference is dropped only for a document found by
\* exact path.
C6_SettleOnlyShrinks ==
    DetectDone =>
       /\ Range(dead_links) \subseteq Range(firstDead)
       /\ \A l \in Range(firstDead) \ Range(dead_links) :
             \/ l \o <<".", "m", "d">> \in vault
             \/ MapHas(normalized_links, l)
                   /\ MapGet(normalized_links, l) \o <<".", "m", "d">> \in vault

C6_Witness ==
    /\ DetectDone
    /\ Range(dead_links) # Range(firstDead)
    /\ dead_links # <<>>

\* C7 as stated: after every reconciliation that found a reference, no
\* reference left dead has a path form that exists by exact path.
C7_NoDeadPathExists ==
    DetectDone =>
       \A l \in Range(dead_links) :
          PathForm(normalized_links, l) \o <<".", "m", "d">> \notin vault

\* C7, amended: after a reconciliation that recorded at least one
\* normalization, no reference left dead has a path form that exists by
\* exact path.
C7_NoDeadPathExistsWhenNormalized ==
    (DetectDone /\ Len(normalized_links) > 0) =>
       \A l \in Range(dead_links) :
          PathForm(normalized_links, l) \o <<".", "m", "d">> \notin vault

C7_Witness ==
    /\ DetectDone
    /\ Len(normalized_links) > 0
    /\ \E l \in Range(dead_links) : MapHas(normalized_links, l)
    /\ \E l \in Range(dead_links) :
          AliasOf(l) # <<>> /\ ~MapHas(normalized_links, l)

Normalized == op \in {"normalizeLink", "normalizeAgain"}

\* C8: normalizeLink(t + a) = normalizeLink(t) + a for a target t without
\* pipe and an alias a that is empty or starts with a pipe.
C8_AliasReattachedVerbatim ==
    Normalized => normalized = normalizeLink(TargetOf(link)) \o AliasOf(link)

C8_Witness ==
    /\ Normalized
    /\ Len(AliasOf(link)) > 1
    /\ AliasOf(link)[Len(AliasOf(link))] = "|"
    /\ normalized # link

\* C9: with both rules off normalizeLink is the identity; with capitalize
\* alone only the first character of the target changes, to its upper case;
\* with both on the result is the singular of the capitalized target.
C9_RulesInFixedOrder ==
    Normalized =>
       /\ (~settings.capitalizeLinks /\ ~settings.singularizeLinks) => normalized = link
       /\ (settings.capitalizeLinks /\ ~settings.singularizeLinks) =>
             /\ Len(normalized) = Len(link)
             /\ \A i \in 2..Len(link) : normalized[i] = link[i]
             /\ Len(TargetOf(link)) > 0 => normalized[1] = toUpperCaseChar(link[1])
             /\ (Len(TargetOf(link)) = 0 /\ Len(link) > 0) => normalized[1] = link[1]
       /\ BothRules =>
             normalized = normalizeLinkWith(SingularizeOnly,
                                            normalizeLinkWith(CapitalizeOnly, link))

C9_Witness ==
    /\ Normalized /\ BothRules
    /\ link = <<"m", "E", "N">>
    /\ normalized = <<"M", "A", "N">>

\* C10: with exactly one rule enabled, normalizeLink applied to its own result
\* returns that result.
C10_SingleRuleIdempotent ==
    (op = "normalizeAgain" /\ settings.capitalizeLinks # settings.singularizeLinks) =>
       renormalized = normalized

C10_Witness ==
    /\ op = "normalizeAgain"
    /\ settings.singularizeLinks /\ ~settings.capitalizeLinks
    /\ AliasOf(link) # <<>>
    /\ normalized # link
    /\ renormalized = normalized

-----------------------------------------------------------------------------
(* The scan alone: the exec loop on a text, and on its own result written  *)
(* back as wikilinks.                                                      *)

MaxPieces == 6

Pieces == {<<"[", "[">>, <<"]", "]">>, <<"[">>, <<"]">>, <<"a">>}

RECURSIVE Concat(_)
Concat(parts) == IF Len(parts) = 0 THEN <<>> ELSE Head(parts) \o Concat(Tail(parts))

ScanTexts == {Concat(parts) : parts \in UNION {[1..n -> Pieces] : n \in 0..MaxPieces}}

\* each element of the array as a wikilink, one after the other
synthesize(tokens) == Concat([i \in DOMAIN tokens |-> wikilink(tokens[i])])

InitScan ==
    /\ settings \in {CapitalizeOnly}
    /\ vault = {}
    /\ content \in ScanTexts
    /\ NoReport
    /\ Idle
    /\ RestIdle
    /\ op = "init"

ScanWikilinks ==
    /\ op = "init"
    /\ scanned' = scanWikilinks(content)
    /\ op' = "scan"
    /\ UNCHANGED <<settings, vault, content, firstDead, dead_links, normalized_links,
                   view_dead, view_normalized, link, normalized, renormalized,
                   file_exists, rescanned, genVars>>

ScanAgain ==
    /\ op = "scan"
    /\ rescanned' = scanWikilinks(synthesize(scanned))
    /\ op' = "rescan"
    /\ UNCHANGED <<settings, vault, content, firstDead, dead_links, normalized_links,
                   view_dead, view_normalized, link, normalized, renormalized,
                   file_exists, scanned, genVars>>

NextScan == ScanWikilinks \/ ScanAgain

SpecScan == InitScan /\ [][NextScan]_vars

-----------------------------------------------------------------------------
(* The scan, stated without the exec loop.                                 *)

FirstAt(text, from, mark) ==
    LET at == {j \in from..(Len(text) - 1) : text[j] = mark /\ text[j + 1] = mark}
    IN IF at = {} THEN 0 ELSE CHOOSE j \in at : \A x \in at : j <= x

\* the tokens when a token is whatever stands between "[[" and the next "]]"
RECURSIVE TokensUpToClosingMarker(_, _)
TokensUpToClosingMarker(text, from) ==
    LET open == FirstAt(text, from, "[")
        close == IF open = 0 THEN 0 ELSE FirstAt(text, open + 2, "]")
    IN IF open = 0 \/ close = 0 THEN <<>>
       ELSE <<SubSeq(text, open + 2, close - 1)>>
               \o TokensUpToClosingMarker(text, close + 2)

\* "[[" at j, then a non-empty run free of "]", then "]]" at k
IsMatch(text, j, k) ==
    /\ 1 <= j /\ j + 2 < k /\ k + 1 <= Len(text)
    /\ text[j] = "[" /\ text[j + 1] = "["
    /\ text[k] = "]" /\ text[k + 1] = "]"
    /\ \A m \in (j + 2)..(k - 1) : text[m] # "]"

MatchStarts(text) ==
    {j \in 1..Len(text) : text[j] = "[" /\ \E k \in (j + 3)..Len(text) : IsMatch(text, j, k)}

EndOf(text, j) == CHOOSE k \in 1..Len(text) : IsMatch(text, j, k)

\* the matches that do not start inside another match
OuterStarts(text) ==
    {j \in MatchStarts(text) :
        ~\E i \in MatchStarts(text) : i < j /\ j <= EndOf(text, i) + 1}

Scanned == op \in {"scan", "rescan"}

\* C11 as stated: the scan returns, in order and with duplicates, the text
\* between each "[[" and the first "]]" after it, whatever that text holds.
C11_TokenIsRunUpToClosingMarker ==
    Scanned => scanned = TokensUpToClosingMarker(content, 1)

\* C11, amended: the scan returns, in order of occurrence and with duplicates,
\* one token per match that does not start inside an earlier match, a match
\* being "[[", a non-empty run of characters other than "]", then "]]".
C11_TokenIsRunWithoutBracket ==
    Scanned =>
       /\ Len(scanned) = Cardinality(OuterStarts(content))
       /\ \A j \in OuterStarts(content) :
             scanned[Cardinality({i \in OuterStarts(content) : i < j}) + 1]
                = SubSeq(content, j + 2, EndOf(content, j) - 1)
       /\ \A i \in DOMAIN scanned :
             scanned[i] # <<>> /\ \A m \in DOMAIN scanned[i] : scanned[i][m] # "]"

C11_Witness ==
    /\ Scanned
    /\ Len(scanned) = 2
    /\ scanned[1] = scanned[2]
    /\ content = <<"[", "[", "a", "]", "]", "[", "[", "a", "]", "]">>

\* C12: the tokens of a text, written back as "[[" + token + "]]" one after
\* the other and scanned again, are the same sequence of tokens.
C12_ScanRoundTrip ==
    op = "rescan" => rescanned = scanned

C12_Witness ==
    /\ op = "rescan"
    /\ Len(rescanned) >= 1
    /\ synthesize(scanned) # content
    /\ \E m \in DOMAIN rescanned[1] : rescanned[1][m] = "["

ReconcileDone == op \in {"detect", "detect_none", "view", "apply"}

\* C13: on every text, the empty one, one without token, with unbalanced
\* brackets or with an empty target included, both passes run to their end,
\* and on a text that holds no reference the dead list and the normalization
\* map they build are empty.
C13_ReconcileNeverFails ==
    /\ ReconcileDone =>
          \E none \in {MatchStarts(content) = {}} :
             /\ (op = "detect_none" /\ none) => dead_links = <<>> /\ normalized_links = <<>>
             /\ (ViewFresh /\ none) => view_dead = <<>> /\ view_normalized = <<>>
             /\ op = "detect_none" => none
             /\ op = "detect" => ~none
    /\ (op = "init" /\ content \in MalformedTexts /\ BothRules) =>
          (ENABLED DetectDeadWikilinks /\ ENABLED UpdateView)
    /\ ViewFresh => Range(view_dead) \subseteq Range(scanWikilinks(content))

C13_Witness ==
    /\ op = "view"
    /\ content = <<"[", "[", "|", "a", "l", "i", "a", "s", "]", "]", " ", "[", "[", "d", "o", "g", "s", "]", "]">>
    /\ BothRules
    /\ view_dead = <<<<"|", "a", "l", "i", "a", "s">>, <<"d", "o", "g", "s">>>>
    /\ view_normalized = << <<<<"d", "o", "g", "s">>, <<"D", "o", "g">>>> >>

-----------------------------------------------------------------------------
(* Creation of the document of a dead link: the prompt, the call of the    *)
(* generation service, the write into the vault.  A document body is the   *)
(* sequence of its parts.                                                  *)

Frontmatter == "frontmatter"

Prompt == "prompt"

ErrorAnnotation == "<!-- Error generating content -->"

\* data.response of a well-formed answer
Generated == "data.response"

\* what += appends for a field the answer does not have
Undefined == "undefined"

\* how the fetch of /api/generate ends
ServiceOutcomes == {"ok", "ok_no_response_field", "ok_invalid_json", "not_ok", "throws"}

\* settings.customNewNoteFolder: the vault root or a folder
NewNoteFolders == {<<>>, <<"n", "o", "t", "e", "s">>}

\* getNewNoteFolder() with useObsidianNewNoteLocation off
getNewNoteFolder == customNewNoteFolder

file_path(newNoteFolderPath, l) ==
    IF newNoteFolderPath # <<>> /\ newNoteFolderPath # <<"/">>
    THEN newNoteFolderPath \o <<"/">> \o link_target(l) \o <<".", "m", "d">>
    ELSE link_target(l) \o <<".", "m", "d">>

\* the call enters its try block; without the service the content is the prompt
startCreation(caller, l, folder, ollama) ==
    [pc |-> IF ollama THEN "fetch" ELSE "store",
     caller |-> caller, link |-> l, file_path |-> file_path(folder, l),
     service |-> "none",
     content |-> IF ollama THEN <<>> ELSE <<Prompt>>,
     attempted |-> FALSE, success |-> FALSE]

\* a service error that reaches the outer catch: the call returns false
serviceReturns_outerCatch(c, outcome) ==
    IF outcome \in {"throws", "ok_invalid_json"}
    THEN [c EXCEPT !.pc = "done", !.service = outcome]
    ELSE [c EXCEPT !.pc = "store", !.service = outcome,
                   !.content = IF outcome = "ok" THEN <<Generated>>
                               ELSE IF outcome = "ok_no_response_field" THEN <<Undefined>>
                               ELSE <<ErrorAnnotation, Prompt>>]

\* the fetch ends: response.ok with data.response, a status that is not ok,
\* or an error caught by the inner catch
serviceReturns(c, outcome) ==
    [c EXCEPT !.pc = "store", !.service = outcome,
              !.content = CASE outcome = "ok" -> <<Generated>>
                            [] outcome = "ok_no_response_field" -> <<Undefined>>
                            [] outcome = "not_ok" -> <<ErrorAnnotation, Prompt>>
                            [] OTHER -> <<ErrorAnnotation, Prompt>>]

\* a write that reports success whatever vault.create did
vaultCreate_alwaysTrue(c, files, io) ==
    [c EXCEPT !.pc = "done", !.content = <<Frontmatter>> \o c.content,
              !.attempted = TRUE, !.success = TRUE]

\* the frontmatter is prepended and vault.create is awaited: it throws on an
\* existing path or an input/output error, and then the call returns false
vaultCreate(c, files, io) ==
    [c EXCEPT !.pc = "done", !.content = <<Frontmatter>> \o c.content,
              !.attempted = TRUE,
              !.success = (c.file_path \notin files /\ io)]

GenTexts == {<<"S", "e", "e", " ", "[", "[", "d", "o", "g", "s", "]", "]", " ", "a", "n", "d", " ", "[", "[", "D", "o", "g", "|", "x", "]", "]", " ", "a", "n", "d", " ", "[", "[", "C", "a", "t", "]", "]", ".">>, <<"S", "e", "e", " ", "[", "[", "f", "o", "l", "d", "e", "r", "/", "d", "o", "g", "s", "]", "]", " ", "a", "n", "d", " ", "[", "[", "s", "]", "]", ".">>}

\* the lists of the sidebar for the active document
viewReport == viewPass(scanWikilinks(content), Len(scanWikilinks(content)))

\* the plugin is loaded, the sidebar shows the active document and the command
\* has opened its modal
InitGenerate ==
    /\ settings = [capitalizeLinks |-> TRUE, singularizeLinks |-> TRUE]
    /\ vault = {}
    /\ content \in GenTexts
    /\ \E report \in {viewReport} :
          /\ view_dead = report.dead
          /\ view_normalized = report.map
          /\ firstDead = report.dead
          /\ dead_links = settle(report.dead, report.map)
          /\ normalized_links = report.map
    /\ Idle
    /\ NoScan
    /\ useOllamaForGeneration \in BOOLEAN
    /\ customNewNoteFolder \in NewNoteFolders
    /\ DefaultNumbers
    /\ reading = <<>>
    /\ containers = 1
    /\ isGenerating = FALSE
    /\ creation = NoCreation
    /\ batch = NoBatch
    /\ op = "init"

\* the Generate button of a sidebar entry: createFile(normalized) up to its
\* first await
ClickGenerate ==
    /\ creation.pc \in {"idle", "done"}
    /\ batch.pc = "idle"
    /\ \E l \in Range(view_dead) :
          creation' = startCreation("createFile", GetOrLink(view_normalized, l),
                                    getNewNoteFolder, useOllamaForGeneration)
    /\ isGenerating' = TRUE
    /\ op' = "createFile"
    /\ UNCHANGED <<settings, vault, content, firstDead, dead_links, normalized_links,
                   view_dead, view_normalized, link, normalized, renormalized,
                   file_exists, scanVars, reading, containers, genSettings, batch>>

\* the Create File button of a modal entry: createFile(normalized) of the modal
\* up to its first await
ClickCreateFile ==
    /\ creation.pc \in {"idle", "done"}
    /\ batch.pc = "idle"
    /\ \E l \in Range(dead_links) :
          creation' = [startCreation("modalCreateFile", GetOrLink(normalized_links, l),
                                     getNewNoteFolder, useOllamaForGeneration)
                          EXCEPT !.link = l]
    /\ op' = "modalCreateFile"
    /\ UNCHANGED <<settings, vault, content, firstDead, dead_links, normalized_links,
                   view_dead, view_normalized, link, normalized, renormalized,
                   file_exists, scanVars, reading, containers, genSettings, isGenerating, batch>>

\* the awaited fetch ends
ServiceReturns ==
    /\ creation.pc = "fetch"
    /\ \E outcome \in ServiceOutcomes : creation' = serviceReturns(creation, outcome)
    /\ op' = "service"
    /\ UNCHANGED <<settings, vault, content, firstDead, dead_links, normalized_links,
                   view_dead, view_normalized, link, normalized, renormalized,
                   file_exists, scanVars, reading, containers, genSettings, isGenerating, batch>>

\* a createFile that returns without resetting the flag
VaultCreate_noFinally ==
    /\ creation.pc = "store"
    /\ \E io \in BOOLEAN :
       \E c \in {vaultCreate(creation, vault, io)} :
          /\ creation' = IF c.caller = "createFile" THEN [c EXCEPT !.pc = "refresh"] ELSE c
          /\ vault' = IF c.success THEN vault \cup {c.file_path} ELSE vault
    /\ UNCHANGED isGenerating
    /\ dead_links' = IF creation.caller = "modalCreateFile"
                     THEN SelectSeq(dead_links, LAMBDA x : x # creation.link)
                     ELSE dead_links
    /\ op' = "created"
    /\ UNCHANGED <<settings, content, firstDead, normalized_links, view_dead,
                   view_normalized, link, normalized, renormalized, file_exists,
                   scanVars, reading, containers, genSettings, batch>>

\* the awaited vault.create ends and the call returns.  createFile of the
\* sidebar resets the flag in its finally block and calls updateView, which
\* reads the document; the modal drops the entry from its list
VaultCreate ==
    /\ creation.pc = "store"
    /\ \E io \in BOOLEAN :
       \E c \in {vaultCreate(creation, vault, io)} :
          /\ creation' = IF c.caller = "createFile" THEN [c EXCEPT !.pc = "refresh"] ELSE c
          /\ vault' = IF c.success THEN vault \cup {c.file_path} ELSE vault
    /\ isGenerating' = IF creation.caller = "createFile" THEN FALSE ELSE isGenerating
    /\ dead_links' = IF creation.caller = "modalCreateFile"
                     THEN SelectSeq(dead_links, LAMBDA x : x # creation.link)
                     ELSE dead_links
    /\ op' = "created"
    /\ UNCHANGED <<settings, content, firstDead, normalized_links, view_dead,
                   view_normalized, link, normalized, renormalized, file_exists,
                   scanVars, reading, containers, genSettings, batch>>

\* the read awaited by that updateView returns and the sidebar is rebuilt
RefreshView ==
    /\ creation.pc = "refresh"
    /\ SidebarPass(content)
    /\ creation' = [creation EXCEPT !.pc = "done"]
    /\ op' = "refreshed"
    /\ UNCHANGED <<settings, vault, content, firstDead, dead_links, normalized_links,
                   link, normalized, renormalized, file_exists, scanVars,
                   reading, containers, genSettings, isGenerating, batch>>

-----------------------------------------------------------------------------
(* generateAllFiles: the files of all dead links of the sidebar, one after *)
(* the other.                                                              *)

\* the text of the sidebar entry of a dead link (the arrow is written ">")
chatLinkText(l, map) ==
    IF GetOrLink(map, l) # l
    THEN l \o <<" ", ">", " ">> \o GetOrLink(map, l) \o <<" ", "(", "n", "o", "r", "m", "a", "l", "i", "z", "e", "d", ")">>
    ELSE GetOrLink(map, l)

\* the entries of the sidebar, found by querySelectorAll('.dead-link-message')
deadLinkMessages(dead, map) == [k \in DOMAIN dead |-> chatLinkText(dead[k], map)]

\* messageItems.find(item => ...textContent?.includes(link)) finds an entry
messageItemFound(items, l) == \E k \in DOMAIN items : indexOf(items[k], l) # 0

\* item i of the batch: with a sidebar entry, createFileWithoutUI(normalized)
\* runs up to its first await; without one the item is passed over
startItem(b, i, folder, ollama) ==
    IF messageItemFound(b.messageItems, b.deadLinks[i])
    THEN [b EXCEPT !.i = i,
                   !.item = startCreation("createFileWithoutUI",
                                          GetOrLink(b.normalizedLinks, b.deadLinks[i]),
                                          folder, ollama),
                   !.calls = IF ollama THEN Append(b.calls, <<"fetch", i>>)
                             ELSE Append(b.calls, <<"create", i>>)]
    ELSE [b EXCEPT !.i = i, !.item = [NoCreation EXCEPT !.pc = "done"],
                   !.results = Append(b.results, "skipped")]

\* a loop that goes on to the next item without awaiting the call in progress
itemSettled_noAwait(b) == b.pc = "running"

\* the awaited createFileWithoutUI of the current item has returned
itemSettled(b) == b.pc = "running" /\ b.item.pc = "done"

\* a counter that counts every item
countItem_everyItem(b, success) ==
    [b EXCEPT !.successCount = b.successCount + 1,
              !.results = Append(b.results, IF success THEN "success" ELSE "failure")]

\* if (success) successCount++, and the entry is marked Generated or Failed
countItem(b, success) ==
    [b EXCEPT !.successCount = IF success THEN b.successCount + 1 ELSE b.successCount,
              !.results = Append(b.results, IF success THEN "success" ELSE "failure")]

\* the Generate All button, shown for more than one dead link: the flag is
\* set, the entries are collected and the first item is started
ClickGenerateAll ==
    /\ batch.pc = "idle"
    /\ creation.pc \in {"idle", "done"}
    /\ Len(view_dead) > 1
    /\ isGenerating' = TRUE
    /\ creation' = NoCreation
    /\ batch' = startItem([NoBatch EXCEPT !.pc = "running",
                                             !.deadLinks = view_dead,
                                             !.normalizedLinks = view_normalized,
                                             !.messageItems =
                                                deadLinkMessages(view_dead, view_normalized)],
                             1, getNewNoteFolder, useOllamaForGeneration)
    /\ op' = "generateAllFiles"
    /\ UNCHANGED <<settings, vault, content, firstDead, dead_links, normalized_links,
                   view_dead, view_normalized, link, normalized, renormalized,
                   file_exists, scanVars, reading, containers, genSettings>>

\* the fetch awaited by the current item ends
BatchServiceReturns ==
    /\ batch.pc = "running"
    /\ batch.item.pc = "fetch"
    /\ \E outcome \in ServiceOutcomes :
          batch' = [batch EXCEPT !.item = serviceReturns(batch.item, outcome),
                                 !.calls = Append(Append(batch.calls, <<"fetched", batch.i>>),
                                                  <<"create", batch.i>>)]
    /\ op' = "service"
    /\ UNCHANGED <<settings, vault, content, firstDead, dead_links, normalized_links,
                   view_dead, view_normalized, link, normalized, renormalized,
                   file_exists, scanVars, reading, containers, genSettings, isGenerating, creation>>

\* the vault.create awaited by the current item ends, createFileWithoutUI
\* returns and the item is counted; the loop then pauses
BatchVaultCreate ==
    /\ batch.pc = "running"
    /\ batch.item.pc = "store"
    /\ \E io \in BOOLEAN :
       \E c \in {vaultCreate(batch.item, vault, io)} :
          /\ batch' = [countItem(batch, c.success)
                          EXCEPT !.item = c,
                                 !.calls = Append(batch.calls, <<"created", batch.i>>)]
          /\ vault' = IF c.success THEN vault \cup {c.file_path} ELSE vault
    /\ op' = "created"
    /\ UNCHANGED <<settings, content, firstDead, dead_links, normalized_links,
                   view_dead, view_normalized, link, normalized, renormalized,
                   file_exists, scanVars, reading, containers, genSettings, isGenerating, creation>>

\* the pause ends: the next item is started or, after the last one, the
\* notice is shown, the flag is reset and a refresh is set to run 3 s later
BatchNext ==
    /\ itemSettled(batch)
    /\ IF batch.i < Len(batch.deadLinks)
       THEN /\ batch' = startItem(batch, batch.i + 1, getNewNoteFolder,
                                      useOllamaForGeneration)
            /\ UNCHANGED isGenerating
       ELSE /\ batch' = [batch EXCEPT !.pc = "finished"]
            /\ isGenerating' = FALSE
    /\ op' = "batchNext"
    /\ UNCHANGED <<settings, vault, content, firstDead, dead_links, normalized_links,
                   view_dead, view_normalized, link, normalized, renormalized,
                   file_exists, scanVars, reading, containers, genSettings, creation>>

\* the refresh set by the batch runs: updateView, unless the flag is set
BatchRefresh ==
    /\ batch.pc = "finished"
    /\ IF isGenerating
       THEN UNCHANGED <<view_dead, view_normalized>>
       ELSE SidebarPass(content)
    /\ batch' = NoBatch
    /\ op' = "refreshed"
    /\ UNCHANGED <<settings, vault, content, firstDead, dead_links, normalized_links,
                   link, normalized, renormalized, file_exists, scanVars,
                   reading, containers, genSettings, isGenerating, creation>>

NextGenerate ==
    \/ ClickGenerate
    \/ ClickCreateFile
    \/ ServiceReturns
    \/ VaultCreate
    \/ RefreshView
    \/ ClickGenerateAll
    \/ BatchServiceReturns
    \/ BatchVaultCreate
    \/ BatchNext
    \/ BatchRefresh

SpecGenerate == InitGenerate /\ [][NextGenerate]_vars

-----------------------------------------------------------------------------
(* File creation and the batch, as the claims state them.                  *)

\* the call frame d is frame c after its call has returned
Returned(c, d) ==
    /\ c.pc \in {"fetch", "store"}
    /\ d.pc \in {"refresh", "done"}
    /\ d.caller = c.caller

\* a status that is not ok, a rejected fetch or an unreadable answer
ServiceFailed(c) == c.service \in {"not_ok", "throws", "ok_invalid_json"}

FailureStillCreates(c, d) ==
    (Returned(c, d) /\ ServiceFailed(d)) =>
       /\ d.attempted
       /\ d.content = <<Frontmatter, ErrorAnnotation, Prompt>>
       /\ d.success <=> (c.file_path \notin vault /\ c.file_path \in vault')

\* C14: whenever the service call of createFile or createFileWithoutUI ends
\* with a status that is not ok or throws, vault.create is still attempted
\* with the degraded body, and the call returns true exactly when the
\* document has been created.
C14_ServiceFailureStillCreates ==
    [][/\ FailureStillCreates(creation, creation')
       /\ FailureStillCreates(batch.item, batch'.item)]_vars

C14_Witness ==
    /\ batch.item.pc = "done"
    /\ batch.item.caller = "createFileWithoutUI"
    /\ batch.item.service = "throws"
    /\ batch.item.success
    /\ batch.item.file_path \in vault

\* the body handed to vault.create: frontmatter, error annotation, prompt
DegradedBody(c) ==
    IF c.attempted THEN c.content = <<Frontmatter, ErrorAnnotation, Prompt>>
    ELSE c.content = <<ErrorAnnotation, Prompt>>

\* C15: for a status that is not ok, a transport error and a malformed
\* answer (not valid JSON, or without the 'response' field) the body of the
\* new document is the error annotation followed by the prompt.  An answer
\* without 'response' gives the body "undefined".
C15_FailureBodyIsAnnotatedPrompt ==
    \A c \in {creation, batch.item} :
       (c.pc \in {"store", "refresh", "done"}
           /\ (ServiceFailed(c) \/ c.service = "ok_no_response_field")) =>
          DegradedBody(c)

Count(results, r) == Cardinality({k \in DOMAIN results : results[k] = r})

\* C16: in a batch a failed write abandons its item only: every item is
\* attempted and ends as a success or a failure, and the success count is the
\* number of documents the batch has created.
C16_BatchCountsCreatedFiles ==
    [][(batch.pc = "running" /\ batch'.pc \in {"running", "finished"}) =>
          /\ batch'.successCount
                = batch.successCount + (IF vault' # vault THEN 1 ELSE 0)
          /\ batch'.successCount = Count(batch'.results, "success")
          /\ batch'.pc = "finished" =>
                /\ Len(batch'.results) = Len(batch'.deadLinks)
                /\ \A k \in DOMAIN batch'.results :
                      /\ batch'.results[k] \in {"success", "failure"}
                      /\ \E e \in DOMAIN batch'.calls :
                            batch'.calls[e] = <<"created", k>>]_vars

C16_Witness ==
    /\ batch.pc = "finished"
    /\ batch.results = <<"success", "failure", "success">>
    /\ batch.successCount = 2
    /\ batch.item.file_path \in vault

\* the calls of a kind that are issued and not yet completed
InFlight(calls, issued, completed) ==
    Cardinality({e \in DOMAIN calls : calls[e][1] = issued})
       - Cardinality({e \in DOMAIN calls : calls[e][1] = completed})

\* C17: the batch issues the service request and the vault.create of an item
\* only after the request and the write of every earlier item have completed;
\* it never has more than one request in flight.
C17_BatchIsSequential ==
    /\ InFlight(batch.calls, "fetch", "fetched") \in {0, 1}
    /\ InFlight(batch.calls, "create", "created") \in {0, 1}
    /\ InFlight(batch.calls, "fetch", "fetched")
          + InFlight(batch.calls, "create", "created") <= 1
    /\ \A q \in DOMAIN batch.calls :
          \A i \in 1..(batch.calls[q][2] - 1) :
             \E p \in 1..(q - 1) : batch.calls[p] = <<"created", i>>

C17_Witness ==
    /\ batch.pc = "finished"
    /\ Len(batch.calls) = 12
    /\ batch.calls[5] = <<"fetch", 2>>
    /\ batch.calls[4] = <<"created", 1>>

-----------------------------------------------------------------------------
(* The sidebar with updateView as the code runs it: the flag is read on    *)
(* entry, the content is emptied, and the pass runs when the awaited read  *)
(* of the active document returns, which other callbacks may precede.      *)

MaxReading == 2

\* the sidebar shows the active document; no read is awaited
InitSidebar ==
    /\ InitGenerate
    /\ useOllamaForGeneration = FALSE
    /\ customNewNoteFolder = <<>>

\* updateView called n times in a row on the active document text, each up to
\* its await: a call returns at once if the flag is set, otherwise it empties
\* the content and awaits the read
updateViewEnter(n, text) ==
    IF isGenerating
    THEN UNCHANGED <<view_dead, view_normalized, reading, containers>>
    ELSE /\ view_dead' = <<>>
         /\ view_normalized' = <<>>
         /\ containers' = 0
         /\ reading' = reading \o [i \in 1..n |-> text]

\* the 5-second interval fires
Timer ==
    /\ Len(reading) < MaxReading
    /\ updateViewEnter(1, content)
    /\ op' = "timer"
    /\ UNCHANGED <<settings, vault, content, firstDead, dead_links, normalized_links,
                   link, normalized, renormalized, file_exists, scanVars,
                   genSettings, isGenerating, creation, batch>>

\* a file-open event of the workspace
FileOpen ==
    /\ Len(reading) < MaxReading
    /\ \E text \in GenTexts :
          /\ content' = text
          /\ updateViewEnter(1, text)
    /\ op' = "file-open"
    /\ UNCHANGED <<settings, vault, firstDead, dead_links, normalized_links,
                   link, normalized, renormalized, file_exists, scanVars,
                   genSettings, isGenerating, creation, batch>>

\* the read awaited by an updateView returns: the call goes on with its scan,
\* its pass and the rebuilding of the entries, and does not read the flag again
ReadReturns ==
    /\ \E k \in DOMAIN reading :
          /\ reading' = SubSeq(reading, 1, k - 1) \o SubSeq(reading, k + 1, Len(reading))
          /\ SidebarPass(reading[k])
          /\ containers' = IF Len(scanWikilinks(reading[k])) = 0
                            THEN containers ELSE containers + 1
    /\ op' = "updateView"
    /\ UNCHANGED <<settings, vault, content, firstDead, dead_links, normalized_links,
                   link, normalized, renormalized, file_exists, scanVars,
                   genSettings, isGenerating, creation, batch>>

\* createFile has returned: updateView of its finally block, then updateView of
\* the click handler
RefreshAfterCreate ==
    /\ creation.pc = "refresh"
    /\ Len(reading) + 2 <= MaxReading
    /\ updateViewEnter(2, content)
    /\ creation' = [creation EXCEPT !.pc = "done"]
    /\ op' = "refresh"
    /\ UNCHANGED <<settings, vault, content, firstDead, dead_links, normalized_links,
                   link, normalized, renormalized, file_exists, scanVars,
                   genSettings, isGenerating, batch>>

\* the refresh set by generateAllFiles 3 s after its end
RefreshAfterBatch ==
    /\ batch.pc = "finished"
    /\ Len(reading) < MaxReading
    /\ updateViewEnter(1, content)
    /\ batch' = NoBatch
    /\ op' = "refresh"
    /\ UNCHANGED <<settings, vault, content, firstDead, dead_links, normalized_links,
                   link, normalized, renormalized, file_exists, scanVars,
                   genSettings, isGenerating, creation>>

\* the Generate button of another entry while generateAllFiles runs: the batch
\* disables the button of its current item and of the items it has generated,
\* the other buttons stay enabled
ClickGenerateInBatch ==
    /\ batch.pc = "running"
    /\ creation.pc \in {"idle", "done"}
    /\ \E k \in DOMAIN batch.deadLinks :
          /\ k # batch.i
          /\ k < batch.i => batch.results[k] # "success"
          /\ batch.deadLinks[k] \in Range(view_dead)
          /\ creation' = startCreation("createFile",
                                       GetOrLink(view_normalized, batch.deadLinks[k]),
                                       getNewNoteFolder, useOllamaForGeneration)
    /\ isGenerating' = TRUE
    /\ op' = "createFile"
    /\ UNCHANGED <<settings, vault, content, firstDead, dead_links, normalized_links,
                   view_dead, view_normalized, link, normalized, renormalized,
                   file_exists, scanVars, reading, containers, genSettings, batch>>

NextSidebar ==
    \/ Timer
    \/ FileOpen
    \/ ReadReturns
    \/ ClickGenerate
    \/ VaultCreate
    \/ RefreshAfterCreate
    \/ ClickGenerateAll
    \/ ClickGenerateInBatch
    \/ BatchVaultCreate
    \/ BatchNext
    \/ RefreshAfterBatch

SpecSidebar == InitSidebar /\ [][NextSidebar]_vars

\* C18: no pass of updateView and no rebuilding of the sidebar runs while
\* isGenerating is true
C18_NoPassWhileGenerating == op = "updateView" => ~isGenerating

\* C21: from the start of generateAllFiles until its last item has completed
\* isGenerating stays true
C21_FlagHeldThroughBatch == batch.pc = "running" => isGenerating

\* C28: once every updateView has finished, the sidebar holds one rendering of
\* the report
C28_OneRendering == (reading = <<>> /\ op = "updateView") => containers = 1
-----------------------------------------------------------------------------
(* The report of a pass after it has been handed over.                     *)

\* the lists handed to the modal, and the lists of the sidebar
Report == <<dead_links, normalized_links>>

SidebarReport == <<view_dead, view_normalized>>

\* C19: a report is never modified once produced: the lists handed to the modal
\* stay as they are, and the lists of the sidebar change only by a fresh scan of
\* the document
C19_ReportIsImmutable ==
    [][/\ Report' = Report
       /\ SidebarReport' # SidebarReport => op' = "refreshed"]_vars
-----------------------------------------------------------------------------
(* The numeric settings: loadSettings and the text fields of the settings  *)
(* tab.                                                                    *)

MaxInput == 2

\* the characters typed into a text field
InputChars == {"-", "0", "7", "x"}

RECURSIVE InputsOfLen(_)
InputsOfLen(n) ==
    IF n = 0 THEN {<<>>}
    ELSE {Append(s, c) : s \in InputsOfLen(n - 1), c \in InputChars}

\* the values a text field hands to onChange
Inputs == UNION {InputsOfLen(n) : n \in 0..MaxInput}

\* the result of parseInt: NaN, or a number
NaN == [isNaN |-> TRUE, number |-> 0]

Number(n) == [isNaN |-> FALSE, number |-> n]

isNaN(parsedValue) == parsedValue.isNaN

DigitSet == {Digits[i] : i \in DOMAIN Digits}

digitValue(c) == (CHOOSE i \in DOMAIN Digits : Digits[i] = c) - 1

\* the number written by the digits of value from position i on, after acc
RECURSIVE digitsFrom(_, _, _)
digitsFrom(value, i, acc) ==
    IF i <= Len(value) /\ value[i] \in DigitSet
    THEN digitsFrom(value, i + 1, acc * 10 + digitValue(value[i]))
    ELSE acc

\* the first position of value that holds no white space
RECURSIVE skipSpace(_, _)
skipSpace(value, i) ==
    IF i <= Len(value) /\ value[i] = " " THEN skipSpace(value, i + 1) ELSE i

\* parseInt(value, 10): white space, a sign, then the longest run of digits;
\* NaN without a digit; what follows the digits is ignored
parseInt(value) ==
    With(skipSpace(value, 1),
         LAMBDA start :
            With(IF start <= Len(value) /\ value[start] \in {"-", "+"}
                 THEN start + 1 ELSE start,
                 LAMBDA first :
                    IF first > Len(value) \/ value[first] \notin DigitSet
                    THEN NaN
                    ELSE IF value[start] = "-"
                         THEN Number(0 - digitsFrom(value, first, 0))
                         ELSE Number(digitsFrom(value, first, 0))))

\* the state that the numeric settings leave alone
notNumbers == <<settings, vault, content, firstDead, dead_links, normalized_links,
                view_dead, view_normalized, link, normalized, renormalized,
                file_exists, scanVars, useOllamaForGeneration, customNewNoteFolder,
                isGenerating, creation, batch, reading, containers>>

\* the plugin is constructed; no data file yet
InitSettings ==
    /\ settings \in AllSettings
    /\ vault = {}
    /\ content = <<>>
    /\ NoReport
    /\ Idle
    /\ RestIdle
    /\ op = "init"

\* Object.assign({}, DEFAULT_SETTINGS, await this.loadData())
LoadSettings ==
    /\ ollamaMaxTokens' = IF savedData = NoData THEN DEFAULT_SETTINGS.ollamaMaxTokens
                          ELSE savedData.ollamaMaxTokens
    /\ ollamaTopK' = IF savedData = NoData THEN DEFAULT_SETTINGS.ollamaTopK
                     ELSE savedData.ollamaTopK
    /\ op' = "loadSettings"
    /\ UNCHANGED <<savedData, notNumbers>>

\* onChange of the Max Tokens field: a value that parses is stored and saved,
\* any other value is answered by a notice
EditMaxTokens ==
    /\ \E value \in Inputs :
       \E parsedValue \in {parseInt(value)} :
          IF ~isNaN(parsedValue)
          THEN /\ ollamaMaxTokens' = parsedValue.number
               /\ savedData' = [ollamaMaxTokens |-> parsedValue.number, ollamaTopK |-> ollamaTopK]
               /\ op' = "maxTokens"
          ELSE /\ UNCHANGED <<ollamaMaxTokens, savedData>>
               /\ op' = "maxTokensNotice"
    /\ UNCHANGED <<ollamaTopK, notNumbers>>

\* onChange of the Top K field
EditTopK ==
    /\ \E value \in Inputs :
       \E parsedValue \in {parseInt(value)} :
          IF ~isNaN(parsedValue)
          THEN /\ ollamaTopK' = parsedValue.number
               /\ savedData' = [ollamaMaxTokens |-> ollamaMaxTokens, ollamaTopK |-> parsedValue.number]
               /\ op' = "topK"
          ELSE /\ UNCHANGED <<ollamaTopK, savedData>>
               /\ op' = "topKNotice"
    /\ UNCHANGED <<ollamaMaxTokens, notNumbers>>

NextSettings ==
    \/ LoadSettings
    \/ EditMaxTokens
    \/ EditTopK

SpecSettings == InitSettings /\ [][NextSettings]_vars

\* C20: after any loads and edits maxTokens and topK are integers greater
\* than 0
C20_NumbersArePositive ==
    /\ ollamaMaxTokens \in Nat \ {0}
    /\ ollamaTopK \in Nat \ {0}
-----------------------------------------------------------------------------
(* A reference and the document it names.                                  *)

\* the path of the canonical target of a reference
CanonicalPath(l) == normalizeLinkPath(normalizeLink(TargetOf(l)))

\* the path of the target of a reference as it is written
WrittenPath(l) == TargetOf(l) \o <<".", "m", "d">>

\* C22 as stated: a reference whose target as written names a document of the
\* store is never reported dead, whatever the rules
C22_WrittenTargetNeverDead ==
    /\ DetectDone => \A l \in Range(dead_links) : WrittenPath(l) \notin vault
    /\ ViewFresh => \A l \in Range(view_dead) : WrittenPath(l) \notin vault

\* C22: a reference whose canonical target names a document of the store is
\* never reported dead, whatever the rules; with both rules off the canonical
\* target is the target as written
C22_CanonicalTargetNeverDead ==
    /\ DetectDone => \A l \in Range(dead_links) : CanonicalPath(l) \notin vault
    /\ ViewFresh => \A l \in Range(view_dead) : CanonicalPath(l) \notin vault
    /\ (~settings.capitalizeLinks /\ ~settings.singularizeLinks) =>
          /\ DetectDone => \A l \in Range(dead_links) : WrittenPath(l) \notin vault
          /\ ViewFresh => \A l \in Range(view_dead) : WrittenPath(l) \notin vault

\* [[dogs]] with Dog.md in the store is not reported, [[Cat|my cat]] is
C22_Witness ==
    /\ op = "detect"
    /\ BothRules
    /\ content = ScenarioText
    /\ vault = {<<"D", "o", "g", ".", "m", "d">>}
    /\ dead_links = <<<<"C", "a", "t", "|", "m", "y", " ", "c", "a", "t">>>>
    /\ view_dead = <<<<"C", "a", "t", "|", "m", "y", " ", "c", "a", "t">>>>

-----------------------------------------------------------------------------
\* C23: on the same text, settings and store the command and the sidebar
\* produce the same dead list, in the same order, and the same normalization
\* map
C23_PathsAgree ==
    DetectDone => (dead_links = view_dead /\ normalized_links = view_normalized)

-----------------------------------------------------------------------------
\* C24: after createFile has created the document of a dead reference, the
\* refresh that follows no longer lists that reference, whatever the folder
\* and the target
C24_CreationResolves ==
    (/\ op = "refreshed"
     /\ creation.pc = "done"
     /\ creation.caller = "createFile"
     /\ creation.success)
    => \A l \in Range(view_dead) : GetOrLink(view_normalized, l) # creation.link

-----------------------------------------------------------------------------
\* the path planned for item k of the batch
PlannedPath(k) ==
    file_path(getNewNoteFolder, GetOrLink(batch.normalizedLinks, batch.deadLinks[k]))

\* C25: the entries of one report are planned onto distinct paths, so no item
\* of a batch fails on a path that an earlier item of the batch has created
C25_BatchPathsDistinct ==
    (batch.pc = "running" /\ batch.item.attempted /\ ~batch.item.success)
    => \A k \in 1..(batch.i - 1) :
          ~(batch.results[k] = "success" /\ PlannedPath(k) = batch.item.file_path)

-----------------------------------------------------------------------------
\* C26: in the modal a failed creation leaves its reference in the list of
\* dead references
C26_FailedCreationKeepsEntry ==
    (/\ op = "created"
     /\ creation.caller = "modalCreateFile"
     /\ ~creation.success)
    => creation.link \in Range(dead_links)
-----------------------------------------------------------------------------
(* The calls that hold the flag, with single clicks during a batch, under  *)
(* the assumption that every awaited call returns: the fetch, vault.create *)
(* and the pauses of the batch.  Clicks and refreshes may or may not come. *)

\* the service is in use; the document has two dead references
InitAwaited ==
    /\ InitGenerate
    /\ useOllamaForGeneration
    /\ customNewNoteFolder = <<>>
    /\ Len(view_dead) = 2

NextAwaited ==
    \/ NextGenerate
    \/ ClickGenerateInBatch

AwaitedCallsReturn ==
    /\ WF_vars(ServiceReturns)
    /\ WF_vars(VaultCreate)
    /\ WF_vars(BatchServiceReturns)
    /\ WF_vars(BatchVaultCreate)
    /\ WF_vars(BatchNext)

SpecAwaited == InitAwaited /\ [][NextAwaited]_vars /\ AwaitedCallsReturn

\* C27: once isGenerating is true it is set back to false after the awaited
\* calls have returned, whether the creation succeeds, fails or throws
C27_FlagEventuallyReset == isGenerating ~> ~isGenerating

\* createFile has reset the flag after a fetch that threw and a write that
\* failed
C27_Witness ==
    /\ op = "created"
    /\ creation.caller = "createFile"
    /\ creation.service = "throws"
    /\ creation.attempted /\ ~creation.success
    /\ ~isGenerating
=============================================================================
